---- MODULE Spec2Model ----
(***************************************************************************)
(* Model of the real-time vehicle pipeline of mini-melbourne-3d:           *)
(* MelbourneMap (src/src/map.js), the position loader and the Train class.  *)
(*                                                                         *)
(* Conventions.                                                            *)
(*  - One action per synchronous run of JavaScript between two awaits or   *)
(*    two callbacks: the event loop runs each of them to completion.       *)
(*  - Coordinates are integers; one unit is 0.0001 degree, the epsilon of  *)
(*    the bearing cache.  Zoom is counted in hundredths of a zoom level.   *)
(*  - A JavaScript value that may be undefined or null is a sequence of    *)
(*    length at most one: << >> is undefined/null, << v >> is the value v. *)
(*  - Times are in milliseconds.                                           *)
(***************************************************************************)
EXTENDS Integers, Sequences, FiniteSets, TLC

\* ------------------------------------------------------------------ bounds
MaxTrips == 2          \* tripIds 1..MaxTrips occur in the feed
MaxSnapshotLen == 2    \* vehicles in one snapshot (all classes together)
MaxInflight == 1       \* updateTrains calls awaiting their fetch at once
MaxCycles == 3         \* refresh cycles started in one behaviour of Spec
MaxQuietCycles == 5    \* refresh cycles started in one behaviour of SpecQuiet

\* ------------------------------------------------------- program constants
busZoomThreshold == 1300
tramZoomThreshold == 1100
vlineZoomThreshold == 1000
trainAnimationDuration == 5000
bearingOffset == 0
defaultZoom == 1200
BearingCacheFrames == 10
PositionEpsilon == 1

\* Zoom levels the user moves the camera to.
ZoomLevels == {800, 999, 1000, 1099, 1100, 1299, 1300}

\* ------------------------------------------------------------- JS optionals
Undefined == << >>
Some(v) == << v >>
IsDefined(x) == x # << >>
ValueOf(x) == x[1]

Abs(x) == IF x < 0 THEN 0 - x ELSE x

\* --------------------------------------------------------------- the feed
TripIds == 1..MaxTrips
VehicleTypes == {"metro", "vline", "bus", "tram"}

\* loadTrainPositions concatenates the classes in this order.
ClassRank(type) ==
    CASE type = "metro" -> 1
      [] type = "vline" -> 2
      [] type = "bus" -> 3
      [] type = "tram" -> 4

\* The upstream feed of the lifecycle specification: trips with an odd id
\* are metro trains, the others trams; a vehicle is reported at <<0, 0>>
\* without a bearing (0) or at <<2, 2>> heading east (90).
FeedClassOf(tripId) == IF tripId % 2 = 1 THEN "metro" ELSE "tram"
FeedReports == {[lon |-> 0, lat |-> 0, bearing |-> 0], [lon |-> 2, lat |-> 2, bearing |-> 90]}
LifecycleFeed ==
    {[tripId |-> id, vehicleType |-> FeedClassOf(id), routeId |-> "R1",
      lon |-> r.lon, lat |-> r.lat, bearing |-> r.bearing] :
        id \in TripIds, r \in FeedReports}

\* Samples of the elapsed time at which the frame clock runs an animation.
ElapsedSamples == {2500, 5000}

\* A constructor that leaves the new train at the start of an animation.
TrainUnsettled(data) ==
    [tripId |-> data.tripId,
     routeId |-> data.routeId,
     vehicleType |-> data.vehicleType,
     lat |-> data.lat,
     lon |-> data.lon,
     bearing |-> data.bearing,
     line |-> Undefined,
     startLat |-> Undefined,
     startLon |-> Undefined,
     targetLat |-> data.lat,
     targetLon |-> data.lon,
     animationProgress |-> 0,
     bearingCache |-> Undefined,
     cacheHits |-> 0]

\* ------------------------------------------------------------------- Train
\* new Train(data)
Train(data) ==
    [tripId |-> data.tripId,
     routeId |-> data.routeId,
     vehicleType |-> data.vehicleType,
     lat |-> data.lat,
     lon |-> data.lon,
     bearing |-> data.bearing,
     line |-> Undefined,
     startLat |-> Undefined,
     startLon |-> Undefined,
     targetLat |-> data.lat,
     targetLon |-> data.lon,
     animationProgress |-> trainAnimationDuration,
     bearingCache |-> Undefined,
     cacheHits |-> 0]

\* An arc tangent that drops the sign of the angle.
Atan2DegUnsigned(y, x) ==
    CASE y = 0 /\ x >= 0 -> 0
      [] y = 0 /\ x < 0 -> 180
      [] x = 0 -> 90
      [] x > 0 -> 45
      [] OTHER -> 135

\* Math.atan2(y, x) in degrees, on the eight principal directions (the only
\* ones the positions of this model produce) and on the zero vector.
Atan2Deg(y, x) ==
    CASE y = 0 /\ x >= 0 -> 0
      [] y = 0 /\ x < 0 -> 180
      [] x = 0 /\ y > 0 -> 90
      [] x = 0 /\ y < 0 -> 0 - 90
      [] x > 0 /\ y = x -> 45
      [] x > 0 /\ y = 0 - x -> 0 - 45
      [] x < 0 /\ y = 0 - x -> 135
      [] x < 0 /\ y = x -> 0 - 135

\* An update that moves the train to the observed position at once.
updatePositionJump(t, data) ==
    [t EXCEPT !.startLat = Some(data.lat),
              !.startLon = Some(data.lon),
              !.lat = data.lat,
              !.lon = data.lon,
              !.targetLat = data.lat,
              !.targetLon = data.lon,
              !.animationProgress = 0]

\* Train.updatePosition(data)
updatePosition(t, data) ==
    LET dLon == data.lon - t.lon
        dLat == data.lat - t.lat
        newBearing ==
            IF data.bearing # 0 THEN data.bearing
            ELSE IF dLon # 0 \/ dLat # 0
                 THEN (Atan2Deg(dLon, dLat) + 360) % 360
                 ELSE t.bearing
    IN [t EXCEPT !.startLat = Some(t.lat),
                 !.startLon = Some(t.lon),
                 !.targetLat = data.lat,
                 !.targetLon = data.lon,
                 !.animationProgress = 0,
                 !.bearing = newBearing]

\* Train.easeInOutQuad(t) for t = elapsed / trainAnimationDuration, as the
\* fraction EaseNum / EaseDen.
EaseDen == 2 * trainAnimationDuration * trainAnimationDuration
\* An easing that is quadratic all the way: t * t.
EaseNumQuadIn(elapsed) == 2 * elapsed * elapsed

EaseNum(elapsed) ==
    IF 2 * elapsed < trainAnimationDuration
    THEN 4 * elapsed * elapsed
    ELSE EaseDen - (2 * trainAnimationDuration - 2 * elapsed)
                   * (2 * trainAnimationDuration - 2 * elapsed)

Min(a, b) == IF a < b THEN a ELSE b
Max(a, b) == IF a > b THEN a ELSE b

\* The interpolated coordinate is exact when the division leaves no rest;
\* the animation clock of this model samples only such instants.
Interpolates(t, elapsed) ==
    LET e == Min(elapsed, trainAnimationDuration)
    IN /\ ((t.targetLat - ValueOf(t.startLat)) * EaseNum(e)) % EaseDen = 0
       /\ ((t.targetLon - ValueOf(t.startLon)) * EaseNum(e)) % EaseDen = 0

\* Train.animate(progress), progress = elapsed / trainAnimationDuration;
\* animationProgress is kept in milliseconds.
animate(t, elapsed) ==
    LET e == Min(elapsed, trainAnimationDuration)
    IN [t EXCEPT !.animationProgress = e,
                 !.lat = ValueOf(t.startLat)
                         + ((t.targetLat - ValueOf(t.startLat)) * EaseNum(e)) \div EaseDen,
                 !.lon = ValueOf(t.startLon)
                         + ((t.targetLon - ValueOf(t.startLon)) * EaseNum(e)) \div EaseDen]

\* ------------------------------------------------------- bearing resolver
\* A railway is [id, shortName, coordinates]; coordinates is a sequence of
\* <<lon, lat>> points, a null entry of malformed data being Undefined.

\* The segment loops throw a TypeError when they destructure a null point
\* (const [x1, y1] = coords[i]); every segment of every matching railway is
\* visited, so one null point in a railway of two or more entries throws.
GeometryThrows(rws) ==
    \E k \in 1..Len(rws) :
        \E i \in 1..(Len(rws[k].coordinates) - 1) :
            \/ rws[k].coordinates[i] = Undefined
            \/ rws[k].coordinates[i + 1] = Undefined

\* The segments of the matching railways, in the order the loops visit them.
RECURSIVE SegmentsOf(_)
SegmentsOf(rws) ==
    IF rws = << >> THEN << >>
    ELSE LET coords == Head(rws).coordinates
         IN [i \in 1..(IF Len(coords) > 0 THEN Len(coords) - 1 ELSE 0) |->
                [x1 |-> coords[i][1], y1 |-> coords[i][2],
                 x2 |-> coords[i + 1][1], y2 |-> coords[i + 1][2]]]
            \o SegmentsOf(Tail(rws))

\* A distance measured to the end point of the segment.
EndDistance2(seg, lon, lat) ==
    (lon - seg.x2) * (lon - seg.x2) + (lat - seg.y2) * (lat - seg.y2)

\* Squared planar distance from the train to the start point of a segment
\* (the code compares the square roots, which order the same way).
StartDistance2(seg, lon, lat) ==
    (lon - seg.x1) * (lon - seg.x1) + (lat - seg.y1) * (lat - seg.y1)

\* The first segment whose start point is nearest ("distance < minDistance").
RECURSIVE ClosestSegment(_, _, _, _)
ClosestSegment(segs, lon, lat, best) ==
    IF segs = << >> THEN best
    ELSE LET s == Head(segs)
         IN IF best = << >>
               \/ StartDistance2(s, lon, lat) < StartDistance2(best[1], lon, lat)
            THEN ClosestSegment(Tail(segs), lon, lat, << s >>)
            ELSE ClosestSegment(Tail(segs), lon, lat, best)

\* Compass bearing of a segment: 90 - atan2(dy, dx), normalised to [0, 360).
SegmentBearing(seg) ==
    LET b == 90 - Atan2Deg(seg.y2 - seg.y1, seg.x2 - seg.x1)
        b1 == IF b < 0 THEN b + 360 ELSE b
    IN IF b1 >= 360 THEN b1 - 360 ELSE b1

\* A cache that is still fresh on the call that counts BearingCacheFrames.
CacheFreshInclusive(frameCount) == frameCount <= BearingCacheFrames

\* The cached value may be used while frameCount stays below the threshold.
CacheFresh(frameCount) == frameCount < BearingCacheFrames

\* MelbourneMap.calculateTrainBearingFromRoute(train): the returned bearing
\* (<< >> for null) and the train with its _bearingCache as the call leaves
\* it.  cacheHits counts the calls answered from the cache since the last
\* computation.
calculateTrainBearingFromRoute(t, rws) ==
    LET c0 == IF IsDefined(t.bearingCache) THEN ValueOf(t.bearingCache)
              ELSE [bearing |-> Undefined, frameCount |-> 0, lastPosition |-> Undefined]
        c1 == [c0 EXCEPT !.frameCount = @ + 1]
        positionChanged ==
            /\ IsDefined(c1.lastPosition)
            /\ \/ Abs(t.lon - ValueOf(c1.lastPosition)[1]) > PositionEpsilon
               \/ Abs(t.lat - ValueOf(c1.lastPosition)[2]) > PositionEpsilon
    IN IF IsDefined(c1.bearing) /\ CacheFresh(c1.frameCount) /\ ~positionChanged
       THEN [result |-> c1.bearing,
             train |-> [t EXCEPT !.bearingCache = Some(c1), !.cacheHits = @ + 1]]
       ELSE LET c2 == [c1 EXCEPT !.frameCount = 0,
                                 !.lastPosition = Some(<<t.lon, t.lat>>)]
                matchingRailways ==
                    SelectSeq(rws, LAMBDA r : r.id = t.routeId \/ Some(r.shortName) = t.line)
                closest == ClosestSegment(SegmentsOf(matchingRailways), t.lon, t.lat, << >>)
            IN IF GeometryThrows(matchingRailways)
               THEN \* caught by the catch of the function: null, cache.bearing kept
                    [result |-> Undefined,
                     train |-> [t EXCEPT !.bearingCache = Some(c2), !.cacheHits = 0]]
               ELSE IF closest = << >>
               THEN [result |-> Undefined,
                     train |-> [t EXCEPT !.bearingCache = Some(c2), !.cacheHits = 0]]
               ELSE [result |-> Some(SegmentBearing(closest[1])),
                     train |-> [t EXCEPT
                         !.bearingCache = Some([c2 EXCEPT !.bearing = Some(SegmentBearing(closest[1]))]),
                         !.cacheHits = 0]]

\* ------------------------------------------------------------------- state
VARIABLES
    feed,             \* the observations the upstream API can report
    staticData,       \* what loadStaticData resolves to: [routes, railways]
    initPhase,        \* position of the asynchronous init()
    mapRemoved,       \* map.remove() has been called
    destroyed,        \* destroy() has returned
    routes,           \* this.routes
    railways,         \* this.railways
    trains,           \* this.trains
    trainAnimations,  \* this.trainAnimations : tripId -> animation id
    anims,            \* the tasks the animation module has scheduled
    updateIntervalId, \* the refresh timer is set
    renderLoopId,     \* a frame callback is requested
    updateCounters,   \* this.updateCounters
    pendingFetches,   \* updateTrains calls suspended at their await
    cyclesLeft,       \* refresh timer firings the behaviour still has
    camera,           \* the map engine's zoom and bounds
    payload,          \* the features last given to the 'trains-3d' source
    frame,            \* what the last rendered frame read
    reconciled,       \* number of snapshots reconciled so far
    lastReconcile,    \* the snapshot the last reconciliation merged
    call,             \* the last call of a helper outside the map object
    server,           \* the local API server: clock, caches, fetches in flight
    loop              \* the render loop: frame clock, lastFrameTime, frames rendered

vars == <<feed, staticData, initPhase, mapRemoved, destroyed, routes, railways, trains,
          trainAnimations, anims, updateIntervalId, renderLoopId, updateCounters,
          pendingFetches, cyclesLeft, camera, payload, frame, reconciled, lastReconcile,
          call, server, loop>>

\* Groups of variables for the UNCHANGED clauses.
envVars == <<feed, staticData, call, server, loop>>
dataVars == <<routes, railways>>
ghostVars == <<reconciled, lastReconcile>>

TrackedIds(ts) == {ts[i].tripId : i \in 1..Len(ts)}
SnapshotIds(snap) == {snap[i].tripId : i \in 1..Len(snap)}
AnimationsOf(an, tripId) == {a \in an : a.tripId = tripId}

\* A search that finds no train.
FindTrainMissing(ts, tripId) == 0

\* Index of the first element of ts with this tripId (Array.find), 0 if none.
FindTrain(ts, tripId) ==
    IF tripId \in TrackedIds(ts)
    THEN CHOOSE i \in 1..Len(ts) :
            /\ ts[i].tripId = tripId
            /\ \A j \in 1..(i - 1) : ts[j].tripId # tripId
    ELSE 0

\* ------------------------------------------------------- animation module
\* The id animation.start returns: ids are opaque, the model takes the least
\* one that no scheduled task and no entry of the registry holds.
FreshId(an, reg) ==
    CHOOSE id \in 1..(Cardinality(an) + Cardinality(DOMAIN reg) + 1) :
        /\ \A a \in an : a.id # id
        /\ \A k \in DOMAIN reg : reg[k] # id
        /\ \A j \in 1..(id - 1) :
              (\E a \in an : a.id = j) \/ (\E k \in DOMAIN reg : reg[k] = j)

\* animation.start(options): schedules a task and returns its id.
animationStart(an, id, tripId) ==
    an \cup {[id |-> id, tripId |-> tripId, attached |-> TRUE, elapsed |-> 0]}

\* animation.stop(id): the task is cancelled at once.
animationStop(an, id) == {a \in an : a.id # id}

\* ------------------------------------------------------------ updateTrains
\* shouldUpdateVehicle(type), with the counters as they are at that moment.
shouldUpdateVehicle(type, counters) ==
    CASE type = "metro" -> TRUE
      [] type = "vline" -> TRUE
      [] type = "tram" -> counters.tram % 2 = 0
      [] type = "bus" -> counters.bus % 3 = 0
      [] OTHER -> TRUE

\* "Add line and color information from routes data".
WithLine(newTrain, rts) ==
    LET found == SelectSeq(rts, LAMBDA r : r.id = newTrain.routeId)
    IN [newTrain EXCEPT !.line = IF found # << >> THEN Some(found[1].shortName)
                                 ELSE Some(newTrain.vehicleType)]

\* A reconciliation that leaves the registered animation running.
StopOldAnimationSkipped(an, reg, tripId) == an

\* "Stop old animation if exists" (map.js 929-932).
StopOldAnimation(an, reg, tripId) ==
    IF tripId \in DOMAIN reg THEN animationStop(an, reg[tripId]) ELSE an

\* The forEach over the vehicles due in this cycle (map.js 923-963).
RECURSIVE ReconcileEach(_, _, _, _)
ReconcileEach(due, ts, reg, an) ==
    IF due = << >>
    THEN [trains |-> ts, reg |-> reg, anims |-> an]
    ELSE LET newTrain == Head(due)
             i == FindTrain(ts, newTrain.tripId)
             stopped == StopOldAnimation(an, reg, newTrain.tripId)
             animId == FreshId(stopped, reg)
         IN IF i > 0
            THEN ReconcileEach(Tail(due),
                     [ts EXCEPT ![i] = updatePosition(ts[i], newTrain)],
                     [k \in DOMAIN reg \cup {newTrain.tripId} |->
                         IF k = newTrain.tripId THEN animId ELSE reg[k]],
                     animationStart(stopped, animId, newTrain.tripId))
            ELSE ReconcileEach(Tail(due), Append(ts, newTrain), reg, an)

\* A refresh that keeps the vehicles the snapshot no longer lists.
RemoveAbsentDeferred(ts, updated) == ts

\* "Remove trains that are no longer in the feed" (map.js 966-967).
RemoveAbsent(ts, updated) ==
    SelectSeq(ts, LAMBDA t : t.tripId \in SnapshotIds(updated))

\* A task whose train object has left this.trains keeps running on that
\* object, which nothing reads any more.
Detach(an, ts) ==
    {IF a.attached /\ a.tripId \notin TrackedIds(ts)
     THEN [a EXCEPT !.attached = FALSE] ELSE a : a \in an}

\* Culling that also discards the vehicles on the boundary lines.
InViewportStrict(t, cam) ==
    /\ cam.west < t.lon /\ t.lon < cam.east
    /\ cam.south < t.lat /\ t.lat < cam.north

\* ---------------------------------------------------------- render3DTrains
\* Viewport culling (map.js 559).
InViewport(t, cam) ==
    ~(t.lon < cam.west \/ t.lon > cam.east \/ t.lat < cam.south \/ t.lat > cam.north)

\* LOD that still hides a class at exactly its threshold.
PassesLODAbove(t, cam) ==
    /\ ~(t.vehicleType = "bus" /\ cam.zoom <= busZoomThreshold)
    /\ ~(t.vehicleType = "tram" /\ cam.zoom <= tramZoomThreshold)
    /\ ~(t.vehicleType = "vline" /\ cam.zoom <= vlineZoomThreshold)

\* Zoom-based LOD by vehicle type (map.js 564-570).
PassesLOD(t, cam) ==
    /\ ~(t.vehicleType = "bus" /\ cam.zoom < busZoomThreshold)
    /\ ~(t.vehicleType = "tram" /\ cam.zoom < tramZoomThreshold)
    /\ ~(t.vehicleType = "vline" /\ cam.zoom < vlineZoomThreshold)

\* zoomScale = 6 - 5 * clamp((zoom - 9) / 9, 0, 1), in units of 1/900.
ZoomScale(zoom) == 5400 - 5 * Max(0, Min(900, zoom - 900))

\* The trains after the bearing calls of one frame: only the trains that
\* pass the filter get their cache touched.
RenderedTrains(ts, cam, rws) ==
    [i \in 1..Len(ts) |->
        IF InViewport(ts[i], cam) /\ PassesLOD(ts[i], cam)
        THEN calculateTrainBearingFromRoute(ts[i], rws).train
        ELSE ts[i]]

\* A fallback that forgets the telemetry bearing.
FallbackBearingNone(b, t) == IF IsDefined(b) THEN ValueOf(b) ELSE 0

\* "if (bearing === null || bearing === undefined) bearing = train.bearing || 0"
FallbackBearing(b, t) == IF IsDefined(b) THEN ValueOf(b) ELSE t.bearing

\* The feature of one visible train.
Feature(t, cam, rws) ==
    LET b == calculateTrainBearingFromRoute(t, rws).result
        bearing == FallbackBearing(b, t)
    IN [tripId |-> t.tripId, lon |-> t.lon, lat |-> t.lat,
        bearing |-> t.bearing, adjustedBearing |-> bearing + bearingOffset,
        zoomScale |-> ZoomScale(cam.zoom)]

RECURSIVE Features(_, _, _)
Features(ts, cam, rws) ==
    IF ts = << >> THEN << >>
    ELSE IF InViewport(Head(ts), cam) /\ PassesLOD(Head(ts), cam)
         THEN << Feature(Head(ts), cam, rws) >> \o Features(Tail(ts), cam, rws)
         ELSE Features(Tail(ts), cam, rws)

\* What a frame reads of a train, kept for the properties about frames.
FrameView(ts) ==
    [i \in 1..Len(ts) |->
        [tripId |-> ts[i].tripId, vehicleType |-> ts[i].vehicleType,
         lon |-> ts[i].lon, lat |-> ts[i].lat]]

\* -------------------------------------------------------------------- Init
DefaultCamera == [zoom |-> defaultZoom, west |-> 0, east |-> 4, south |-> 0, north |-> 4]

\* Nothing reconciled yet.  updatedIds: the tripIds of the merged snapshot;
\* due: its observations that passed shouldUpdateVehicle; failed: the
\* classes whose fetch failed; added, removed: the tripIds inserted into and
\* removed from this.trains; replacedDetached: the tripIds whose registered
\* animation, still running on a removed train object, was stopped; cycle:
\* the refresh cycle (the n-th call of updateTrains) whose snapshot it was;
\* appliedCycles: the cycles whose snapshots have been reconciled so far.
NoReconcile ==
    [updatedIds |-> {}, due |-> << >>, failed |-> {}, added |-> {}, removed |-> {},
     replacedDetached |-> {}, cycle |-> 0, appliedCycles |-> {}]

\* No frame rendered yet.  input: the trains the frame read; camera: the
\* camera it read; reconcile: the last reconciliation before it.
NoFrame ==
    [rendered |-> FALSE, input |-> << >>, camera |-> DefaultCamera,
     reconcile |-> NoReconcile]

NoStaticData == [routes |-> << >>, railways |-> << >>]

\* No helper called: op names the helper, input and output its argument and
\* result, done tells whether it has returned.
NoCall == [op |-> "none", done |-> FALSE, input |-> << >>, output |-> << >>]

\* The local API server (api/server.js) as it starts.  Times are in
\* milliseconds; now is Date.now(), which is far beyond every cache window
\* when the server starts (ServerStart stands for it).  cache holds the
\* {timestamp, feed} of an endpoint, a feed being named by the time it was
\* fetched; pending counts the upstream fetches in flight; last is what the
\* last request met: answered from the cache or sent upstream, age being
\* the time since the last successful fetch of its endpoint.
CACHE_DURATION == 4000
ServerStart == 100000
Endpoints == {"/positions", "/trips"}

ServerStarted ==
    [now |-> ServerStart,
     cache |-> [e \in Endpoints |-> [timestamp |-> 0, feed |-> 0]],
     pending |-> [e \in Endpoints |-> 0],
     last |-> [endpoint |-> "none", source |-> "none", age |-> 0, status |-> 0]]

\* The render loop: now is the time of the last frame tick, measured from
\* the moment startRenderLoop read performance.now(); lastFrameTime is the
\* loop's reference time; frames counts the ticks that passed the rate limit.
LoopStarted == [now |-> 0, lastFrameTime |-> 0, frames |-> 0]

\* The state the constructor leaves (map.js 15-65), init() being suspended
\* at its first await.
Constructed ==
    /\ initPhase = "awaitLoad"
    /\ mapRemoved = FALSE
    /\ destroyed = FALSE
    /\ routes = << >>
    /\ railways = << >>
    /\ trains = << >>
    /\ trainAnimations = << >>
    /\ anims = {}
    /\ updateIntervalId = FALSE
    /\ renderLoopId = FALSE
    /\ updateCounters = [metro |-> 0, vline |-> 0, tram |-> 0, bus |-> 0]
    /\ pendingFetches = 0
    /\ payload = << >>
    /\ frame = NoFrame
    /\ reconciled = 0
    /\ lastReconcile = NoReconcile

Init ==
    /\ Constructed
    /\ call = NoCall
    /\ server = ServerStarted
    /\ loop = LoopStarted
    /\ feed = LifecycleFeed
    /\ staticData = NoStaticData
    /\ camera = DefaultCamera
    /\ cyclesLeft = MaxCycles - 1

\* ----------------------------------------------------------------- actions
\* The map fires 'load' (map.js 90); a removed map fires nothing.
MapLoaded ==
    /\ initPhase = "awaitLoad"
    /\ ~mapRemoved
    /\ initPhase' = "awaitStatic"
    /\ UNCHANGED <<envVars, dataVars, ghostVars, mapRemoved, destroyed, trains,
                   trainAnimations, anims, updateIntervalId, renderLoopId,
                   updateCounters, pendingFetches, cyclesLeft, camera, payload, frame>>

\* init() resumes after loadStaticData (map.js 93-211).  loaded: the static
\* data holds stations.  On a map that destroy() has removed, the calls on
\* the map engine either throw or go through: both outcomes are kept.
\* Otherwise init() starts the render loop, calls updateTrains() once and
\* sets the refresh timer.
InitFinish ==
    /\ initPhase = "awaitStatic"
    /\ \E loaded \in BOOLEAN, engineThrows \in BOOLEAN :
        /\ (engineThrows => mapRemoved)
        /\ IF ~loaded \/ engineThrows
           THEN /\ initPhase' = "failed"
                /\ UNCHANGED <<dataVars, renderLoopId, updateIntervalId,
                               updateCounters, pendingFetches>>
           ELSE /\ initPhase' = "running"
                /\ routes' = staticData.routes
                /\ railways' = staticData.railways
                /\ renderLoopId' = TRUE
                /\ updateCounters' = [metro |-> 1, vline |-> 1, tram |-> 1, bus |-> 1]
                /\ pendingFetches' = pendingFetches + 1
                /\ updateIntervalId' = TRUE
    /\ UNCHANGED <<envVars, ghostVars, mapRemoved, destroyed, trains, trainAnimations,
                   anims, cyclesLeft, camera, payload, frame>>

\* The refresh timer fires: updateTrains() runs up to its await (map.js 878-892).
TimerTick ==
    /\ updateIntervalId
    /\ cyclesLeft > 0
    /\ pendingFetches < MaxInflight
    /\ cyclesLeft' = cyclesLeft - 1
    /\ updateCounters' = [metro |-> updateCounters.metro + 1,
                          vline |-> updateCounters.vline + 1,
                          tram |-> updateCounters.tram + 1,
                          bus |-> updateCounters.bus + 1]
    /\ pendingFetches' = pendingFetches + 1
    /\ UNCHANGED <<envVars, dataVars, ghostVars, initPhase, mapRemoved, destroyed,
                   trains, trainAnimations, anims, updateIntervalId, renderLoopId,
                   camera, payload, frame>>

\* The snapshots loadTrainPositions can return: the classes concatenated in
\* the order metro, vline, bus, tram.
Snapshots ==
    {s \in UNION {[1..n -> feed] : n \in 0..MaxSnapshotLen} :
        \A i \in 1..(Len(s) - 1) :
            ClassRank(s[i].vehicleType) <= ClassRank(s[i + 1].vehicleType)}

\* The classes whose position fetch fails in one cycle: none, one, or all.
FailurePatterns == {{}, VehicleTypes} \cup {{o.vehicleType} : o \in feed}

\* The refresh cycles whose fetch is in flight: the calls of updateTrains
\* started (each incremented the counters) and not yet resumed.
InFlightCycles == (1..updateCounters.metro) \ lastReconcile.appliedCycles

\* updateTrains() of one cycle in flight resumes with the fetched data and
\* reconciles it (map.js 894-971); the fetches resolve in any order.
\* failed: the classes whose fetch failed, for which loadVehiclePositions
\* returned [].
UpdateTrainsResume ==
    /\ pendingFetches > 0
    /\ \E failed \in FailurePatterns, snap \in Snapshots, cycle \in InFlightCycles :
        /\ \A i \in 1..Len(snap) : snap[i].vehicleType \notin failed
        /\ LET updatedTrains == [i \in 1..Len(snap) |-> WithLine(Train(snap[i]), routes)]
               due == SelectSeq(updatedTrains,
                          LAMBDA t : shouldUpdateVehicle(t.vehicleType, updateCounters))
               r == ReconcileEach(due, trains, trainAnimations, anims)
               kept == RemoveAbsent(r.trains, updatedTrains)
           IN /\ trains' = kept
              /\ trainAnimations' = r.reg
              /\ anims' = Detach(r.anims, kept)
              /\ lastReconcile' =
                    [updatedIds |-> SnapshotIds(snap),
                     due |-> SelectSeq(snap,
                         LAMBDA o : shouldUpdateVehicle(o.vehicleType, updateCounters)),
                     failed |-> failed,
                     added |-> TrackedIds(kept) \ TrackedIds(trains),
                     removed |-> TrackedIds(trains) \ TrackedIds(kept),
                     replacedDetached |->
                         {t.tripId : t \in {due[i] : i \in 1..Len(due)}}
                         \cap {a.tripId : a \in {b \in anims : ~b.attached}}
                         \cap TrackedIds(trains),
                     cycle |-> cycle,
                     appliedCycles |-> lastReconcile.appliedCycles \cup {cycle}]
    /\ pendingFetches' = pendingFetches - 1
    /\ reconciled' = reconciled + 1
    /\ UNCHANGED <<envVars, dataVars, initPhase, mapRemoved, destroyed, updateIntervalId,
                   renderLoopId, updateCounters, cyclesLeft, camera, payload, frame>>

\* The frame clock runs one animation task at the elapsed time e: the
\* callback animates the train, and at the end of the duration complete()
\* unregisters the tripId and the task ends (map.js 947-956).
AnimTick ==
    \E a \in anims, e \in ElapsedSamples :
        /\ e > a.elapsed
        /\ IF a.attached
           THEN LET i == FindTrain(trains, a.tripId)
                IN /\ i > 0
                   /\ Interpolates(trains[i], e)
                   /\ trains' = [trains EXCEPT ![i] = animate(trains[i], e)]
           ELSE UNCHANGED trains
        /\ IF e >= trainAnimationDuration
           THEN /\ anims' = anims \ {a}
                /\ trainAnimations' =
                       [k \in DOMAIN trainAnimations \ {a.tripId} |-> trainAnimations[k]]
           ELSE /\ anims' = (anims \ {a}) \cup {[a EXCEPT !.elapsed = e]}
                /\ UNCHANGED trainAnimations
        /\ UNCHANGED <<envVars, dataVars, ghostVars, initPhase, mapRemoved, destroyed,
                       updateIntervalId, renderLoopId, updateCounters, pendingFetches,
                       cyclesLeft, camera, payload, frame>>

\* renderFrame(currentTime) (map.js 818-837): the callback requests the next
\* frame and, when at least 16 ms have passed (enough) and there are trains,
\* runs render3DTrains.
RenderFrame ==
    /\ renderLoopId
    /\ renderLoopId' = TRUE
    /\ \E enough \in BOOLEAN :
        IF enough /\ Len(trains) > 0
        THEN /\ payload' = Features(trains, camera, railways)
             /\ trains' = RenderedTrains(trains, camera, railways)
             /\ frame' = [rendered |-> TRUE, input |-> FrameView(trains), camera |-> camera,
                          reconcile |-> lastReconcile]
        ELSE UNCHANGED <<payload, trains, frame>>
    /\ UNCHANGED <<envVars, dataVars, ghostVars, initPhase, mapRemoved, destroyed,
                   trainAnimations, anims, updateIntervalId, updateCounters,
                   pendingFetches, cyclesLeft, camera>>

\* destroy() (map.js 1210-1223).
Destroy ==
    /\ ~destroyed
    /\ updateIntervalId' = FALSE
    /\ renderLoopId' = FALSE
    /\ anims' = {a \in anims :
                    \A k \in DOMAIN trainAnimations : trainAnimations[k] # a.id}
    /\ trainAnimations' = << >>
    /\ mapRemoved' = TRUE
    /\ destroyed' = TRUE
    /\ UNCHANGED <<envVars, dataVars, ghostVars, initPhase, trains, updateCounters,
                   pendingFetches, cyclesLeft, camera, payload, frame>>

\* The user zooms the map: the engine's camera changes.
CameraChange ==
    /\ initPhase = "running"
    /\ ~mapRemoved
    /\ \E z \in ZoomLevels : camera' = [camera EXCEPT !.zoom = z]
    /\ UNCHANGED <<envVars, dataVars, ghostVars, initPhase, mapRemoved, destroyed, trains,
                   trainAnimations, anims, updateIntervalId, renderLoopId, updateCounters,
                   pendingFetches, cyclesLeft, payload, frame>>

\* ---------------------------------------------------------- specifications
\* The whole lifecycle.
Next ==
    \/ MapLoaded
    \/ InitFinish
    \/ TimerTick
    \/ UpdateTrainsResume
    \/ AnimTick
    \/ RenderFrame
    \/ Destroy

Spec == Init /\ [][Next]_vars

\* The lifecycle while the browser runs no frame callback of the render loop
\* (a hidden tab), over more refresh cycles.
InitQuiet ==
    /\ Constructed
    /\ call = NoCall
    /\ server = ServerStarted
    /\ loop = LoopStarted
    /\ feed = LifecycleFeed
    /\ staticData = NoStaticData
    /\ camera = DefaultCamera
    /\ cyclesLeft = MaxQuietCycles - 1

NextQuiet ==
    \/ MapLoaded
    \/ InitFinish
    \/ TimerTick
    \/ UpdateTrainsResume
    \/ AnimTick
    \/ Destroy

SpecQuiet == InitQuiet /\ [][NextQuiet]_vars

\* The state after init() and some refresh cycles in which no frame was
\* rendered: counters refresh cycles have run, the last one has merged the
\* snapshot snap into tracked, and nothing else is known to the client.
AfterCycles(counters, tracked, snap) ==
    LET updatedTrains == [i \in 1..Len(snap) |-> WithLine(Train(snap[i]), staticData.routes)]
        due == SelectSeq(updatedTrains, LAMBDA t : shouldUpdateVehicle(t.vehicleType, counters))
        r == ReconcileEach(due, tracked, << >>, {})
        kept == RemoveAbsent(r.trains, updatedTrains)
    IN /\ initPhase = "running"
       /\ mapRemoved = FALSE
       /\ destroyed = FALSE
       /\ routes = staticData.routes
       /\ railways = staticData.railways
       /\ trains = kept
       /\ trainAnimations = r.reg
       /\ anims = Detach(r.anims, kept)
       /\ updateIntervalId = TRUE
       /\ renderLoopId = TRUE
       /\ updateCounters = counters
       /\ pendingFetches = 0
       /\ cyclesLeft = 0
       /\ payload = << >>
       /\ frame = NoFrame
       /\ reconciled = counters.metro
       /\ lastReconcile =
             [updatedIds |-> SnapshotIds(snap),
              due |-> SelectSeq(snap, LAMBDA o : shouldUpdateVehicle(o.vehicleType, counters)),
              failed |-> {},
              added |-> TrackedIds(kept) \ TrackedIds(tracked),
              removed |-> TrackedIds(tracked) \ TrackedIds(kept),
              replacedDetached |-> {},
              cycle |-> counters.metro,
              appliedCycles |-> 1..counters.metro]

\* The bearing resolver: one metro train on route R1, inserted at one
\* position and reconciled to another in the second cycle, is animated while
\* frames render it.  R1 runs east from <<0, 0>> to <<4, 0>> and then north
\* to <<4, 4>>; R2 is another line.
BearingStaticData ==
    [routes |-> << [id |-> "R1", shortName |-> "Line1"] >>,
     railways |-> << [id |-> "R2", shortName |-> "Line2",
                      coordinates |-> << <<0, 4>>, <<0, 0>> >>],
                     [id |-> "R1", shortName |-> "Line1",
                      coordinates |-> << <<0, 0>>, <<4, 0>>, <<4, 4>> >>] >>]

BearingPositions == {<<0, 0>>, <<2, 2>>, <<4, 4>>}

BearingObservation(p) ==
    [tripId |-> 1, vehicleType |-> "metro", routeId |-> "R1",
     lon |-> p[1], lat |-> p[2], bearing |-> 0]

InitBearing ==
    /\ call = NoCall
    /\ server = ServerStarted
    /\ loop = LoopStarted
    /\ staticData = BearingStaticData
    /\ camera = DefaultCamera
    /\ \E from \in BearingPositions, to \in BearingPositions :
        /\ feed = {BearingObservation(from), BearingObservation(to)}
        /\ AfterCycles([metro |-> 2, vline |-> 2, tram |-> 2, bus |-> 2],
                       << WithLine(Train(BearingObservation(from)), staticData.routes) >>,
                       << BearingObservation(to) >>)

NextBearing ==
    \/ RenderFrame
    \/ AnimTick

SpecBearing == InitBearing /\ [][NextBearing]_vars

\* Culling and LOD: one or two vehicles of any class, inserted in the sixth
\* cycle (in which every class is due) on, inside or one unit outside the
\* camera bounds, are rendered while the user zooms.
RenderCamera == [zoom |-> defaultZoom, west |-> 1, east |-> 3, south |-> 1, north |-> 3]

RenderPositions ==
    {<<2, 2>>, <<1, 2>>, <<3, 2>>, <<2, 1>>, <<2, 3>>, <<0, 2>>, <<4, 2>>, <<2, 0>>, <<2, 4>>}

RenderFeed ==
    {[tripId |-> id, vehicleType |-> type, routeId |-> "R1",
      lon |-> p[1], lat |-> p[2], bearing |-> 90] :
        id \in 1..2, type \in VehicleTypes, p \in RenderPositions}

InitRender ==
    /\ call = NoCall
    /\ server = ServerStarted
    /\ loop = LoopStarted
    /\ staticData = NoStaticData
    /\ camera = RenderCamera
    /\ feed = RenderFeed
    /\ \E snap \in Snapshots :
        /\ Len(snap) > 0
        /\ \A i \in 1..Len(snap) : snap[i].tripId = i
        /\ AfterCycles([metro |-> 6, vline |-> 6, tram |-> 6, bus |-> 6], << >>, snap)

NextRender ==
    \/ RenderFrame
    \/ CameraChange

SpecRender == InitRender /\ [][NextRender]_vars

\* Malformed route geometry: the railway of route R1 has a null point, the
\* railway of route R2 runs due east.  One or two vehicles on these routes,
\* reporting a bearing of 180, are rendered while the user zooms.
FaultyStaticData ==
    [routes |-> << [id |-> "R1", shortName |-> "Line1"],
                   [id |-> "R2", shortName |-> "Line2"] >>,
     railways |-> << [id |-> "R1", shortName |-> "Line1",
                      coordinates |-> << <<0, 0>>, Undefined, <<4, 4>> >>],
                     [id |-> "R2", shortName |-> "Line2",
                      coordinates |-> << <<0, 0>>, <<4, 0>> >>] >>]

FaultyFeed ==
    {[tripId |-> id, vehicleType |-> type, routeId |-> route,
      lon |-> p[1], lat |-> p[2], bearing |-> 180] :
        id \in 1..2, type \in {"metro", "tram"}, route \in {"R1", "R2"},
        p \in {<<2, 2>>, <<1, 3>>, <<0, 2>>}}

InitFaulty ==
    /\ call = NoCall
    /\ server = ServerStarted
    /\ loop = LoopStarted
    /\ staticData = FaultyStaticData
    /\ camera = RenderCamera
    /\ feed = FaultyFeed
    /\ \E snap \in Snapshots :
        /\ Len(snap) > 0
        /\ \A i \in 1..Len(snap) : snap[i].tripId = i
        /\ AfterCycles([metro |-> 6, vline |-> 6, tram |-> 6, bus |-> 6], << >>, snap)

NextFaulty ==
    \/ RenderFrame
    \/ CameraChange

SpecFaulty == InitFaulty /\ [][NextFaulty]_vars

\* ------------------------------------------------------------ line offsets
\* The helpers of helpers/line-offset.js are functions of their arguments;
\* each is called on its own, on an argument chosen before the call.
mapVars == <<feed, staticData, initPhase, mapRemoved, destroyed, routes, railways, trains,
             trainAnimations, anims, updateIntervalId, renderLoopId, updateCounters,
             pendingFetches, cyclesLeft, camera, payload, frame, reconciled, lastReconcile,
             server, loop>>

HelperInit(op, inputs) ==
    /\ Constructed
    /\ feed = {}
    /\ staticData = NoStaticData
    /\ camera = DefaultCamera
    /\ cyclesLeft = 0
    /\ server = ServerStarted
    /\ loop = LoopStarted
    /\ \E x \in inputs : call = [op |-> op, done |-> FALSE, input |-> x, output |-> << >>]

HelperReturn(op, result) ==
    /\ call.op = op
    /\ ~call.done
    /\ call' = [call EXCEPT !.done = TRUE, !.output = result]
    /\ UNCHANGED mapVars

\* cleanGeometry works in units of 0.0000005 degrees, in which its epsilon
\* of 0.000001 is 2.
CleanEpsilon == 2

\* The loop of cleanGeometry from index i on: a point is kept when it
\* differs from the previous point of the input by more than epsilon.
RECURSIVE CleanFrom(_, _, _)
CleanFrom(coords, i, cleaned) ==
    IF i > Len(coords) THEN cleaned
    ELSE LET prev == coords[i - 1]
             curr == coords[i]
             dx == Abs(curr[1] - prev[1])
             dy == Abs(curr[2] - prev[2])
         IN CleanFrom(coords, i + 1,
                      IF dx > CleanEpsilon \/ dy > CleanEpsilon
                      THEN Append(cleaned, curr) ELSE cleaned)

cleanGeometry(coords) ==
    IF Len(coords) < 2 THEN coords
    ELSE LET cleaned == CleanFrom(coords, 2, << coords[1] >>)
         IN IF Len(cleaned) >= 2 THEN cleaned ELSE coords

MaxPolyline == 3

CleanPoints == {<<x, y>> : x \in 0..3, y \in {0, 3}}

Polylines == UNION {[1..n -> CleanPoints] : n \in 0..MaxPolyline}

InitClean == HelperInit("cleanGeometry", Polylines)

CleanReturn == HelperReturn("cleanGeometry", cleanGeometry(call.input))

NextClean == CleanReturn

SpecClean == InitClean /\ [][NextClean]_vars

\* ------------------------------------------------------- railway offsets
\* Coordinates are in the units of cleanGeometry, a degree being 2000000 of
\* them; offsets are in tenths of a metre.  A railway is
\* [id, transportType, geometry, offset]: geometry is
\* [coordinates, offsetBy], offsetBy being << >> for a geometry as loaded
\* and <<num, den>> for one the offset library made at num / den tenths of
\* a metre; offset is railway.offset, << >> while the property is not set.
Degree == 2000000
railwayOffsetDistance == 50
railwayOffsetTypes == {"metro", "tram"}
OffsetThreshold == 1

\* Number.prototype.toFixed(5): the nearest multiple of 0.00001 degrees
\* (20 units), halves away from zero, as an integer count of them.
ToFixed5(x) == IF x >= 0 THEN (x + 10) \div 20 ELSE 0 - ((10 - x) \div 20)

\* isValidCoordinates(coords) for arrays of numeric points.
isValidCoordinates(coords) ==
    \A i \in 1..Len(coords) :
        ~(\/ coords[i][1] < 100 * Degree \/ coords[i][1] > 180 * Degree
          \/ coords[i][2] < 0 - 45 * Degree \/ coords[i][2] > 0 - 30 * Degree)

\* What @turf/line-offset does with a cleaned line.
TurfOutcomes == {"offset", "throws", "empty", "degenerate", "outOfBounds"}

\* An offsetLine that trusts its input and the library.
offsetLineUnchecked(geometry, distance, outcome) ==
    [coordinates |-> cleanGeometry(geometry.coordinates), offsetBy |-> distance]

\* offsetLine(line, distance), the library behaving as outcome says:
\* the geometry it returns.  distance is the fraction <<num, den>>.
offsetLine(geometry, distance, outcome) ==
    IF distance[1] = 0 THEN geometry
    ELSE LET cleanedCoords == cleanGeometry(geometry.coordinates)
         IN IF ~isValidCoordinates(cleanedCoords) THEN geometry
            ELSE IF Len(cleanedCoords) < 2 THEN geometry
            ELSE IF outcome = "offset"
                 THEN [coordinates |-> cleanedCoords, offsetBy |-> distance]
                 ELSE geometry

\* A rank formula centred on totalLines / 2.
calculateLineOffsetOffCentre(lineIndex, totalLines, baseOffset) ==
    IF totalLines = 1 THEN 0
    ELSE ((2 * lineIndex - totalLines) * baseOffset) \div 2

\* calculateLineOffset: (lineIndex - (totalLines - 1) / 2) * baseOffset.
calculateLineOffset(lineIndex, totalLines, baseOffset) ==
    IF totalLines = 1 THEN 0
    ELSE ((2 * lineIndex - (totalLines - 1)) * baseOffset) \div 2

\* The entries findSharedTrackSegments pushes, in the order it visits the
\* segments: the railways in array order, the segments of each in order.
RECURSIVE SegmentEntries(_, _)
SegmentEntries(rws, index) ==
    IF index > Len(rws) THEN << >>
    ELSE LET coords == rws[index].geometry.coordinates
         IN [i \in 1..(Len(coords) - 1) |->
                [signature |-> <<ToFixed5(coords[i][1]), ToFixed5(coords[i][2]),
                                 ToFixed5(coords[i + 1][1]), ToFixed5(coords[i + 1][2])>>,
                 railwayId |-> rws[index].id,
                 railwayIndex |-> index - 1,
                 segmentIndex |-> i - 1]]
            \o SegmentEntries(rws, index + 1)

\* The signatures of a sequence of entries, each once, in the order of
\* their first entry (the key order of the Map).
RECURSIVE SignatureOrder(_, _)
SignatureOrder(entries, seen) ==
    IF entries = << >> THEN << >>
    ELSE IF Head(entries).signature \in seen
         THEN SignatureOrder(Tail(entries), seen)
         ELSE << Head(entries).signature >>
              \o SignatureOrder(Tail(entries), seen \cup {Head(entries).signature})

\* findSharedTrackSegments(railways): the segments with more than one
\* entry, as [signature, railways], in Map order.
findSharedTrackSegments(rws) ==
    LET entries == SegmentEntries(rws, 1)
        keys == SignatureOrder(entries, {})
        all == [k \in 1..Len(keys) |->
                   [signature |-> keys[k],
                    railways |-> SelectSeq(entries, LAMBDA e : e.signature = keys[k])]]
    IN SelectSeq(all, LAMBDA g : Len(g.railways) > 1)

\* The offsets assigned in one shared segment, by rank.
RankOffsets(g) ==
    [k \in 1..Len(g.railways) |->
        [railwayId |-> g.railways[k].railwayId,
         offset |-> calculateLineOffset(k - 1, Len(g.railways), railwayOffsetDistance)]]

\* An offset of one rank for every railway, shared segment or not.
OffsetInfoFixed(shared, id) == [sum |-> railwayOffsetDistance, sharedSegments |-> 1]

\* railwayOffsets.get(id) after the loop over the shared segments: the
\* running average equals the sum of the assigned offsets over their number,
\* kept as the pair [sum, sharedSegments].
RECURSIVE OffsetInfo(_, _)
OffsetInfo(shared, id) ==
    IF shared = << >> THEN [sum |-> 0, sharedSegments |-> 0]
    ELSE LET ranks == RankOffsets(Head(shared))
             mine == SelectSeq(ranks, LAMBDA r : r.railwayId = id)
             rest == OffsetInfo(Tail(shared), id)
             Sum[k \in 0..Len(mine)] == IF k = 0 THEN 0 ELSE Sum[k - 1] + mine[k].offset
         IN [sum |-> rest.sum + Sum[Len(mine)],
             sharedSegments |-> rest.sharedSegments + Len(mine)]

\* The railways that take part in the search for shared segments.
ValidRailways(rws) ==
    SelectSeq(rws, LAMBDA r : /\ Len(r.geometry.coordinates) >= 2
                             /\ r.transportType \in railwayOffsetTypes)

\* applyRailwayOffsets(railways), the offset library behaving as turf says
\* for each railway id: the railways returned and, for the properties of
\* the ranks, the offsets assigned in each shared segment.
applyRailwayOffsets(rws, turf) ==
    LET shared == findSharedTrackSegments(ValidRailways(rws))
        Result(r) ==
            LET info == OffsetInfo(shared, r.id)
            IN IF r.transportType \notin railwayOffsetTypes THEN r
               ELSE IF info.sharedSegments = 0
                       \/ Abs(info.sum) < OffsetThreshold * info.sharedSegments
                    THEN r
               ELSE LET distance == <<info.sum, info.sharedSegments>>
                        offsetGeometry == offsetLine(r.geometry, distance, turf[r.id])
                    IN IF offsetGeometry # r.geometry
                       THEN [r EXCEPT !.geometry = offsetGeometry, !.offset = distance]
                       ELSE r
    IN [railways |-> IF Len(rws) = 0 \/ Len(ValidRailways(rws)) = 0 \/ Len(shared) = 0
                     THEN rws
                     ELSE [k \in 1..Len(rws) |-> Result(rws[k])],
        segments |-> [k \in 1..Len(shared) |-> RankOffsets(shared[k])]]

\* The arguments: one to three railways with distinct ids in any order, of
\* an allowed or an excluded class, on the track P-Q-R, on a track within
\* rounding of P-Q, on a single point, or on a track outside the bounds;
\* the library fails for at most one of them.
RailwayIds == {"A", "B", "C"}

PointP == <<145 * Degree, 0 - 38 * Degree>>
PointQ == <<146 * Degree, 0 - 38 * Degree>>
PointR == <<146 * Degree, 0 - 37 * Degree>>

Tracks ==
    {<<PointP, PointQ>>,
     <<PointP, PointQ, PointR>>,
     <<PointP, <<PointQ[1] + 4, PointQ[2]>> >>,
     <<PointP>>,
     << <<0, 0>>, <<Degree, 0>> >>}

LoadedRailways ==
    {[id |-> id, transportType |-> type,
      geometry |-> [coordinates |-> track, offsetBy |-> Undefined],
      offset |-> Undefined] :
        id \in RailwayIds, type \in {"metro", "bus"}, track \in Tracks}

RailwayArrays ==
    {rws \in UNION {[1..n -> LoadedRailways] : n \in 1..Cardinality(RailwayIds)} :
        \A i, j \in 1..Len(rws) : i # j => rws[i].id # rws[j].id}

TurfBehaviours ==
    {[id \in RailwayIds |-> IF id = failing THEN outcome ELSE "offset"] :
        failing \in RailwayIds, outcome \in TurfOutcomes}

OffsetArguments == {[railways |-> rws, turf |-> turf] : rws \in RailwayArrays, turf \in TurfBehaviours}

InitOffsets == HelperInit("applyRailwayOffsets", OffsetArguments)

OffsetsReturn ==
    HelperReturn("applyRailwayOffsets", applyRailwayOffsets(call.input.railways, call.input.turf))

NextOffsets == OffsetsReturn

SpecOffsets == InitOffsets /\ [][NextOffsets]_vars

\* --------------------------------------------------------------- animation
\* Train.animate on its own: a train inserted at from and reconciled to to
\* gets the callback of its animation at elapsed milliseconds.  The
\* positions are multiples of 8, which the easing at the eighths of the
\* duration keeps whole.
AnimatePositions == {<<x, y>> : x \in {0, 8, 16}, y \in {0, 8, 16}}

AnimateInstants == {0, 625, 1250, 2500, 3750, 5000, 6000}

AnimateObservation(p) ==
    [tripId |-> 1, vehicleType |-> "metro", routeId |-> "R1",
     lon |-> p[1], lat |-> p[2], bearing |-> 90]

AnimateArguments ==
    {[from |-> a, to |-> b, elapsed |-> e] :
        a \in AnimatePositions, b \in AnimatePositions, e \in AnimateInstants}

InitAnimate == HelperInit("animate", AnimateArguments)

AnimateReturn ==
    LET t == updatePosition(Train(AnimateObservation(call.input.from)),
                            AnimateObservation(call.input.to))
    IN /\ call.op = "animate"
       /\ Interpolates(t, call.input.elapsed)
       /\ HelperReturn("animate", animate(t, call.input.elapsed))

NextAnimate == AnimateReturn

SpecAnimate == InitAnimate /\ [][NextAnimate]_vars

\* -------------------------------------------------- bearing on first call
\* calculateTrainBearingFromRoute on a train that has no cache yet.  R1 is
\* a loop running north, east, south and west; X1 carries the line name of
\* R1 and runs north-east and then south-east; R3 has no points, R4 is
\* another line, R6 has a null point.
NearestRailways ==
    << [id |-> "R4", shortName |-> "Line4", coordinates |-> << <<0, 2>>, <<4, 2>> >>],
       [id |-> "R1", shortName |-> "Line1",
        coordinates |-> << <<0, 0>>, <<0, 2>>, <<2, 2>>, <<2, 0>>, <<0, 0>> >>],
       [id |-> "X1", shortName |-> "Line1",
        coordinates |-> << <<4, 0>>, <<6, 2>>, <<8, 0>> >>],
       [id |-> "R3", shortName |-> "Line3", coordinates |-> << >>],
       [id |-> "R6", shortName |-> "Line6",
        coordinates |-> << <<0, 0>>, Undefined, <<4, 4>> >>] >>

NearestArguments ==
    {[Train([tripId |-> 1, vehicleType |-> "metro", routeId |-> route,
             lon |-> x, lat |-> y, bearing |-> 90])
        EXCEPT !.line = Some(line)] :
        route \in {"R1", "R3", "R4", "R5", "R6"}, line \in {"Line1", "metro"},
        x \in 0..6, y \in 0..2}

InitNearest == HelperInit("calculateTrainBearingFromRoute", NearestArguments)

NearestReturn ==
    HelperReturn("calculateTrainBearingFromRoute",
                 calculateTrainBearingFromRoute(call.input, NearestRailways))

NextNearest == NearestReturn

SpecNearest == InitNearest /\ [][NextNearest]_vars

\* -------------------------------------------------------------- API server
\* The handlers of app.get('/positions') and app.get('/trips'); the other
\* endpoints repeat them on caches of their own.
MaxPending == 2
MaxElapsed == 36000
ClockSteps == {3000, 30000}

clientVars == <<feed, staticData, initPhase, mapRemoved, destroyed, routes, railways, trains,
                trainAnimations, anims, updateIntervalId, renderLoopId, updateCounters,
                pendingFetches, cyclesLeft, camera, payload, frame, reconciled, lastReconcile,
                call, loop>>

\* "Date.now() - cache.timestamp > CACHE_DURATION"
CacheStale(now, timestamp) == now - timestamp > CACHE_DURATION

\* A request arrives: a fresh entry is answered from the cache, a stale one
\* sends a fetch upstream and the handler waits for it.
ServerRequest ==
    \E e \in Endpoints :
        LET age == server.now - server.cache[e].timestamp
        IN IF CacheStale(server.now, server.cache[e].timestamp)
           THEN /\ server.pending[e] < MaxPending
                /\ server' = [server EXCEPT
                       !.pending[e] = @ + 1,
                       !.last = [endpoint |-> e, source |-> "upstream", age |-> age,
                                 status |-> 0]]
                /\ UNCHANGED clientVars
           ELSE /\ server' = [server EXCEPT
                       !.last = [endpoint |-> e, source |-> "cache", age |-> age,
                                 status |-> 200]]
                /\ UNCHANGED clientVars

\* An upstream fetch returns: on success the entry is replaced and sent, on
\* failure the handler answers 500 and leaves the entry.
ServerFetchReturn ==
    \E e \in Endpoints, ok \in BOOLEAN :
        /\ server.pending[e] > 0
        /\ server' = [server EXCEPT
               !.pending[e] = @ - 1,
               !.cache[e] = IF ok THEN [timestamp |-> server.now, feed |-> server.now] ELSE @,
               !.last = [endpoint |-> e, source |-> "fetched", age |-> 0,
                         status |-> IF ok THEN 200 ELSE 500]]
        /\ UNCHANGED clientVars

\* Time passes.
ServerTick ==
    \E d \in ClockSteps :
        /\ server.now + d <= ServerStart + MaxElapsed
        /\ server' = [server EXCEPT !.now = @ + d]
        /\ UNCHANGED clientVars

InitServer ==
    /\ Constructed
    /\ feed = {}
    /\ staticData = NoStaticData
    /\ camera = DefaultCamera
    /\ cyclesLeft = 0
    /\ call = NoCall
    /\ server = ServerStarted
    /\ loop = LoopStarted

NextServer ==
    \/ ServerRequest
    \/ ServerFetchReturn
    \/ ServerTick

SpecServer == InitServer /\ [][NextServer]_vars

\* ------------------------------------------------------------------ claims
\* C1: after any sequence of refresh cycles at most one animation task is
\* active per tripId, and every active task is the one the registry holds
\* for its tripId (the registered task was stopped before a new one started).
C1_OneAnimationPerTrip ==
    \A id \in TripIds :
        /\ Cardinality(AnimationsOf(anims, id)) <= 1
        /\ \A a \in AnimationsOf(anims, id) :
              id \in DOMAIN trainAnimations /\ trainAnimations[id] = a.id

\* A vehicle disappeared while animated, reappeared, and the reconciliation
\* of the reappeared vehicle has stopped the old task and started a new one.
C1_Witness ==
    \E id \in lastReconcile.replacedDetached :
        \E a \in AnimationsOf(anims, id) : a.attached /\ a.elapsed = 0

\* C2: a tripId that is not tracked has no entry in the animation registry
\* and no scheduled animation task.
C2_UntrackedHasNoAnimation ==
    \A id \in TripIds :
        id \notin TrackedIds(trains) =>
            id \notin DOMAIN trainAnimations /\ AnimationsOf(anims, id) = {}

\* C3: a reconciliation in which the position fetch of some class failed
\* removes no tracked vehicle of a class whose fetch failed.
C3_FailedFetchKeepsVehicles ==
    [][(reconciled' = reconciled + 1 /\ lastReconcile'.failed # {}) =>
         \A i \in 1..Len(trains) :
            trains[i].vehicleType \in lastReconcile'.failed =>
                trains[i].tripId \in TrackedIds(trains')]_vars

\* C4: once destroy() has returned no refresh timer, no frame callback and
\* no animation task is scheduled.
C4_NothingScheduledAfterDestroy ==
    destroyed => ~updateIntervalId /\ ~renderLoopId /\ anims = {}

ViewIds(view) == {view[i].tripId : i \in 1..Len(view)}

\* C5: the tracked set a rendered frame reads is a completely reconciled
\* one: it holds no vehicle that the last merged snapshot lacks (all
\* removals done) and every vehicle that was due in it (all insertions done).
C5_FrameSeesReconciledSet ==
    frame.rendered =>
        /\ ViewIds(frame.input) \subseteq frame.reconcile.updatedIds
        /\ SnapshotIds(frame.reconcile.due) \subseteq ViewIds(frame.input)

\* A frame has rendered after a reconciliation that both inserted a vehicle
\* and removed another one.
C5_Witness ==
    /\ frame.rendered
    /\ frame.reconcile.added # {}
    /\ frame.reconcile.removed # {}

\* The last observation of a tripId in a sequence of observations.
LastObservation(obs, id) ==
    obs[CHOOSE i \in 1..Len(obs) :
            obs[i].tripId = id /\ \A j \in (i + 1)..Len(obs) : obs[j].tripId # id]

\* C6: reconciling a tracked vehicle leaves its animated lat/lon unchanged,
\* makes that position the animation start and the new observation the
\* animation target.
C6_NoTeleport ==
    [][reconciled' = reconciled + 1 =>
         \A i \in 1..Len(trains) :
            trains[i].tripId \in SnapshotIds(lastReconcile'.due) =>
                LET old == trains[i]
                    j == FindTrain(trains', old.tripId)
                    o == LastObservation(lastReconcile'.due, old.tripId)
                IN /\ j > 0
                   /\ trains'[j].lat = old.lat
                   /\ trains'[j].lon = old.lon
                   /\ trains'[j].startLat = Some(old.lat)
                   /\ trains'[j].startLon = Some(old.lon)
                   /\ trains'[j].targetLat = o.lat
                   /\ trains'[j].targetLon = o.lon]_vars

\* A vehicle whose animation was interrupted part-way (it stands at no
\* position the feed reports) has just been reconciled to a new target.
C6_Witness ==
    \E i \in 1..Len(trains) :
        /\ trains[i].animationProgress = 0
        /\ trains[i].startLat = Some(trains[i].lat)
        /\ \A o \in feed : o.lat # trains[i].lat
        /\ trains[i].targetLat # trains[i].lat

\* The tripIds a sequence of observations lists exactly once.
ListedOnce(obs) ==
    {id \in SnapshotIds(obs) : Cardinality({i \in 1..Len(obs) : obs[i].tripId = id}) = 1}

\* C7 as stated: a vehicle seen for the first time is inserted with its
\* animation start equal to its animation target, both the observed
\* position, and no animation task is started for it.
C7_NewVehicleStartEqualsTarget ==
    [][reconciled' = reconciled + 1 =>
         \A id \in SnapshotIds(lastReconcile'.due) \ TrackedIds(trains) :
            LET j == FindTrain(trains', id)
                o == lastReconcile'.due[CHOOSE i \in 1..Len(lastReconcile'.due) :
                                            lastReconcile'.due[i].tripId = id]
            IN /\ j > 0
               /\ trains'[j].startLat = Some(o.lat)
               /\ trains'[j].startLon = Some(o.lon)
               /\ trains'[j].targetLat = o.lat
               /\ trains'[j].targetLon = o.lon
               /\ ~\E a \in anims' : a.tripId = id /\ a.attached]_vars

\* C7 as amended: a vehicle seen for the first time, listed once among the
\* vehicles due in the snapshot, is inserted at the observed position with
\* its animation target equal to that position and its animation complete
\* (animationProgress = 1); its animation start is left undefined and no
\* animation task is started for it.
C7_NewVehicleImmediate ==
    [][reconciled' = reconciled + 1 =>
         \A id \in ListedOnce(lastReconcile'.due) \ TrackedIds(trains) :
            LET j == FindTrain(trains', id)
                o == LastObservation(lastReconcile'.due, id)
            IN /\ j > 0
               /\ trains'[j].lat = o.lat
               /\ trains'[j].lon = o.lon
               /\ trains'[j].targetLat = o.lat
               /\ trains'[j].targetLon = o.lon
               /\ trains'[j].animationProgress = trainAnimationDuration
               /\ trains'[j].startLat = Undefined
               /\ trains'[j].startLon = Undefined
               /\ ~\E a \in anims' : a.tripId = id /\ a.attached]_vars

\* A vehicle has just been inserted, away from the origin, and no animation
\* runs on it.
C7_Witness ==
    \E id \in lastReconcile.added :
        /\ id \in ListedOnce(lastReconcile.due)
        /\ LET j == FindTrain(trains, id)
           IN /\ j > 0
              /\ trains[j].startLat = Undefined
              /\ trains[j].targetLat = trains[j].lat
              /\ trains[j].lat # 0
        /\ ~\E a \in anims : a.tripId = id /\ a.attached

\* The trips that have a polygon in the payload handed to the engine.
PayloadIds == {payload[i].tripId : i \in 1..Len(payload)}

\* The zoom threshold of a vehicle class; metro has none.
ClassThreshold(type) ==
    CASE type = "bus" -> busZoomThreshold
      [] type = "tram" -> tramZoomThreshold
      [] type = "vline" -> vlineZoomThreshold
      [] OTHER -> 0

\* C8: once a bearing is cached, the next 9 calls with the position within
\* epsilon of the cached one return the cached bearing and compute nothing;
\* the 10th call, and any call after the position moved by more than
\* epsilon, recomputes, caches the position and resets the frame counter.
C8_BearingCache ==
    [][\A i \in 1..Len(trains) :
         (/\ i <= Len(trains')
          /\ trains'[i].tripId = trains[i].tripId
          /\ trains'[i].bearingCache # trains[i].bearingCache
          /\ IsDefined(trains[i].bearingCache)
          /\ IsDefined(ValueOf(trains[i].bearingCache).bearing))
         => LET t == trains[i]
                c == ValueOf(t.bearingCache)
                c2 == ValueOf(trains'[i].bearingCache)
                moved == \/ Abs(t.lon - ValueOf(c.lastPosition)[1]) > PositionEpsilon
                         \/ Abs(t.lat - ValueOf(c.lastPosition)[2]) > PositionEpsilon
            IN IF t.cacheHits < 9 /\ ~moved
               THEN /\ trains'[i].cacheHits = t.cacheHits + 1
                    /\ c2.bearing = c.bearing
                    /\ c2.lastPosition = c.lastPosition
                    /\ \E k \in 1..Len(payload') :
                          /\ payload'[k].tripId = t.tripId
                          /\ payload'[k].adjustedBearing = ValueOf(c.bearing) + bearingOffset
               ELSE /\ trains'[i].cacheHits = 0
                    /\ c2.frameCount = 0
                    /\ c2.lastPosition = Some(<<t.lon, t.lat>>)
                    /\ IsDefined(c2.bearing)]_vars

\* Nine consecutive calls were answered from the cache, the train standing
\* where the bearing was computed.
C8_Witness ==
    \E i \in 1..Len(trains) :
        /\ trains[i].cacheHits = 9
        /\ IsDefined(trains[i].bearingCache)
        /\ ValueOf(trains[i].bearingCache).lastPosition = Some(<<trains[i].lon, trains[i].lat>>)

\* C9: a vehicle outside the camera bounds on any side is not in the
\* payload of the frame; a vehicle on a boundary line of the bounds (and
\* within them in the other direction) that passes the zoom LOD is.
C9_InclusiveCulling ==
    frame.rendered =>
        \A i \in 1..Len(frame.input) :
            LET v == frame.input[i]
                c == frame.camera
                lonInside == c.west <= v.lon /\ v.lon <= c.east
                latInside == c.south <= v.lat /\ v.lat <= c.north
                onBoundary == v.lon = c.west \/ v.lon = c.east \/ v.lat = c.south \/ v.lat = c.north
            IN /\ ~(lonInside /\ latInside) => v.tripId \notin PayloadIds
               /\ (onBoundary /\ lonInside /\ latInside /\ c.zoom >= ClassThreshold(v.vehicleType))
                      => v.tripId \in PayloadIds

\* A frame kept a vehicle standing on the western boundary and discarded one
\* standing one unit west of it.
C9_Witness ==
    /\ frame.rendered
    /\ \E i, j \in 1..Len(frame.input) :
        /\ frame.input[i].lon = frame.camera.west
        /\ frame.input[i].tripId \in PayloadIds
        /\ frame.input[j].lon = frame.camera.west - 1
        /\ frame.input[j].tripId \notin PayloadIds

\* C10: a vehicle inside the viewport is in the payload of the frame if and
\* only if it is a metro vehicle or the zoom is at least the threshold of
\* its class (bus 13, tram 11, vline 10).
C10_ZoomLOD ==
    frame.rendered =>
        \A i \in 1..Len(frame.input) :
            LET v == frame.input[i]
                c == frame.camera
            IN (c.west <= v.lon /\ v.lon <= c.east /\ c.south <= v.lat /\ v.lat <= c.north)
               => (v.tripId \in PayloadIds <=>
                     (v.vehicleType = "metro" \/ c.zoom >= ClassThreshold(v.vehicleType)))

\* A frame at zoom 12.99 kept a tram and discarded a bus, both in the
\* viewport.
C10_Witness ==
    /\ frame.rendered
    /\ frame.camera.zoom = busZoomThreshold - 1
    /\ \E i, j \in 1..Len(frame.input) :
        /\ frame.input[i].vehicleType = "tram"
        /\ frame.input[i].tripId \in PayloadIds
        /\ frame.input[j].vehicleType = "bus"
        /\ frame.input[j].lon = 2 /\ frame.input[j].lat = 2
        /\ frame.input[j].tripId \notin PayloadIds

\* The route of a tracked vehicle has a railway with a null point, so the
\* bearing computation of that vehicle fails.
BearingFails(tripId) ==
    \E i \in 1..Len(trains), k \in 1..Len(railways) :
        /\ trains[i].tripId = tripId
        /\ railways[k].id = trains[i].routeId
        /\ \E n \in 1..Len(railways[k].coordinates) : railways[k].coordinates[n] = Undefined

\* The vehicles of the last frame that passed viewport culling and zoom LOD.
VisibleIds ==
    {frame.input[i].tripId : i \in
        {j \in 1..Len(frame.input) :
            LET v == frame.input[j]
                c == frame.camera
            IN /\ c.west <= v.lon /\ v.lon <= c.east
               /\ c.south <= v.lat /\ v.lat <= c.north
               /\ c.zoom >= ClassThreshold(v.vehicleType)}}

\* C11 (as stated): a vehicle whose per-vehicle computation fails is skipped
\* for the frame, and the other visible vehicles are emitted.
C11_FailedVehicleSkipped ==
    frame.rendered => PayloadIds = {id \in VisibleIds : ~BearingFails(id)}

\* C11 (amended): a frame completes and the loop stays scheduled; when the
\* bearing computation of a vehicle fails on malformed route geometry the
\* vehicle is not skipped but emitted with its telemetry bearing, and every
\* other visible vehicle is emitted as well.
C11_FailedVehicleFallsBack ==
    frame.rendered =>
        /\ renderLoopId
        /\ PayloadIds = VisibleIds
        /\ \A k \in 1..Len(payload) :
              BearingFails(payload[k].tripId) =>
                  payload[k].adjustedBearing = payload[k].bearing + bearingOffset

\* A frame emitted a vehicle on the malformed route with its telemetry
\* bearing and a vehicle on the sound route with the bearing of its track.
C11_Witness ==
    /\ frame.rendered
    /\ \E k, n \in 1..Len(payload) :
        /\ BearingFails(payload[k].tripId)
        /\ payload[k].adjustedBearing = 180
        /\ ~BearingFails(payload[n].tripId)
        /\ payload[n].adjustedBearing = 90

\* C12: the output of cleanGeometry has no two consecutive points within
\* epsilon of each other in both coordinates, and is no longer than the
\* input.
C12_CleanedHasNoNearDuplicates ==
    (call.op = "cleanGeometry" /\ call.done) =>
        /\ Len(call.output) <= Len(call.input)
        /\ \A i \in 1..(Len(call.output) - 1) :
              \/ Abs(call.output[i + 1][1] - call.output[i][1]) > CleanEpsilon
              \/ Abs(call.output[i + 1][2] - call.output[i][2]) > CleanEpsilon

\* A call of applyRailwayOffsets has returned.
OffsetsDone == call.op = "applyRailwayOffsets" /\ call.done

NameOrder(id) == CASE id = "A" -> 1 [] id = "B" -> 2 [] OTHER -> 3

\* C14: within each shared segment the ranks follow the lexicographic order
\* of the route names, whatever the order of the routes in the input.
C14_RankIsLexicographic ==
    OffsetsDone =>
        \A s \in 1..Len(call.output.segments) :
            LET ranks == call.output.segments[s]
            IN \A k, l \in 1..Len(ranks) :
                  k < l => NameOrder(ranks[k].railwayId) <= NameOrder(ranks[l].railwayId)

\* The offsets a route was assigned over the shared segments, as
\* <<segment, rank>> places, and their sum.
PlacesOf(id) ==
    {<<s, k>> \in (1..Len(call.output.segments)) \X (1..Cardinality(RailwayIds)) :
        /\ k <= Len(call.output.segments[s])
        /\ call.output.segments[s][k].railwayId = id}

RECURSIVE SumOver(_)
SumOver(places) ==
    IF places = {} THEN 0
    ELSE LET p == CHOOSE q \in places : TRUE
         IN call.output.segments[p[1]][p[2]].offset + SumOver(places \ {p})

\* The route is of an allowed class, has a shared segment, and its averaged
\* offset is at least 0.1 m in magnitude.
Eligible(r) ==
    /\ r.transportType \in {"metro", "tram"}
    /\ PlacesOf(r.id) # {}
    /\ Abs(SumOver(PlacesOf(r.id))) >= Cardinality(PlacesOf(r.id))

OffsetFails(r) ==
    \/ Len(r.geometry.coordinates) < 2
    \/ \E i \in 1..Len(r.geometry.coordinates) :
          \/ r.geometry.coordinates[i][1] < 100 * Degree
          \/ r.geometry.coordinates[i][1] > 180 * Degree
          \/ r.geometry.coordinates[i][2] < 0 - 45 * Degree
          \/ r.geometry.coordinates[i][2] > 0 - 30 * Degree
    \/ call.input.turf[r.id] # "offset"

\* C16: applyRailwayOffsets returns the routes of its input in their order,
\* and a route whose offset computation fails keeps the geometry it came
\* with.
C16_RoutesKeptOnFailure ==
    OffsetsDone =>
        /\ Len(call.output.railways) = Len(call.input.railways)
        /\ \A k \in 1..Len(call.input.railways) :
              /\ call.output.railways[k].id = call.input.railways[k].id
              /\ call.output.railways[k].transportType = call.input.railways[k].transportType
              /\ OffsetFails(call.input.railways[k]) =>
                    call.output.railways[k].geometry = call.input.railways[k].geometry

\* The library failed for a route that was due an offset, which kept its
\* geometry, while another route of the call was offset.
C16_Witness ==
    /\ OffsetsDone
    /\ \E k, j \in 1..Len(call.input.railways) :
        /\ Eligible(call.input.railways[k])
        /\ call.input.turf[call.input.railways[k].id] \in {"throws", "degenerate"}
        /\ call.output.railways[k] = call.input.railways[k]
        /\ call.output.railways[j].geometry # call.input.railways[j].geometry

\* C17: a vehicle animated from A to B over duration D is, at elapsed time
\* D / 2, exactly at the midpoint of A and B.
C17_MidpointAtHalfDuration ==
    (call.op = "animate" /\ call.done /\ 2 * call.input.elapsed = trainAnimationDuration) =>
        /\ 2 * call.output.lon = call.input.from[1] + call.input.to[1]
        /\ 2 * call.output.lat = call.input.from[2] + call.input.to[2]
        /\ 2 * call.output.animationProgress = trainAnimationDuration

\* A vehicle on its way from <<0, 0>> to <<16, 8>> was animated at half the
\* duration.
C17_Witness ==
    /\ call.op = "animate"
    /\ call.done
    /\ call.input = [from |-> <<0, 0>>, to |-> <<16, 8>>, elapsed |-> 2500]
    /\ call.output.lon = 8
    /\ call.output.lat = 4

\* The railways that match the train of the call by route id or line name.
MatchingOfCall ==
    {k \in 1..Len(NearestRailways) :
        \/ NearestRailways[k].id = call.input.routeId
        \/ Some(NearestRailways[k].shortName) = call.input.line}

\* Their segments, as <<railway, index>>, when all their points are sound.
SegmentsOfCall ==
    {<<k, i>> \in MatchingOfCall \X (1..4) : i < Len(NearestRailways[k].coordinates)}

\* Squared distance from the train of the call to the start of a segment.
StartGap(s) ==
    LET p == NearestRailways[s[1]].coordinates[s[2]]
    IN (call.input.lon - p[1]) * (call.input.lon - p[1])
       + (call.input.lat - p[2]) * (call.input.lat - p[2])

\* The compass bearing of a segment: 0 north, 90 east, 180 south, 270 west.
Compass(s) ==
    LET p == NearestRailways[s[1]].coordinates[s[2]]
        q == NearestRailways[s[1]].coordinates[s[2] + 1]
        dx == q[1] - p[1]
        dy == q[2] - p[2]
    IN CASE dx = 0 /\ dy > 0 -> 0
         [] dx > 0 /\ dy > 0 -> 45
         [] dx > 0 /\ dy = 0 -> 90
         [] dx > 0 /\ dy < 0 -> 135
         [] dx = 0 /\ dy < 0 -> 180
         [] dx < 0 /\ dy < 0 -> 225
         [] dx < 0 /\ dy = 0 -> 270
         [] OTHER -> 315

\* C18: with a matching route that has geometry, the call returns the
\* compass bearing, in [0, 360), of a segment whose start point is nearest
\* to the vehicle over all matching routes; with no matching route or no
\* geometry it returns null; it returns in every case.
C18_BearingOfNearestSegment ==
    (call.op = "calculateTrainBearingFromRoute" /\ call.done) =>
        IF \E k \in MatchingOfCall : \E n \in 1..Len(NearestRailways[k].coordinates) :
               NearestRailways[k].coordinates[n] = Undefined
        THEN call.output.result = Undefined
        ELSE IF SegmentsOfCall = {}
        THEN call.output.result = Undefined
        ELSE /\ IsDefined(call.output.result)
             /\ ValueOf(call.output.result) >= 0
             /\ ValueOf(call.output.result) < 360
             /\ \E s \in SegmentsOfCall :
                   /\ \A o \in SegmentsOfCall : StartGap(s) <= StartGap(o)
                   /\ ValueOf(call.output.result) = Compass(s)

\* A train next to the south-east corner of the loop got the bearing of the
\* segment that starts there and runs due west.
C18_Witness ==
    /\ call.op = "calculateTrainBearingFromRoute"
    /\ call.done
    /\ call.input.routeId = "R1"
    /\ call.input.lon = 2
    /\ call.input.lat = 0
    /\ call.output.result = Some(270)

\* The cache window the documentation gives an endpoint: 30 seconds for
\* positions, 60 seconds for trip updates.
DocumentedWindow(e) == IF e = "/positions" THEN 30000 ELSE 60000

\* C19: a request that arrives within the window of the last successful
\* upstream fetch of its endpoint is answered from the cache and sends
\* nothing upstream.
C19_CachedWithinWindow ==
    (server.last.source \in {"cache", "upstream"}
        /\ server.last.age <= DocumentedWindow(server.last.endpoint))
    => server.last.source = "cache"

\* ------------------------------------------------ overlapping refresh cycles
\* The refresh cycles that may be in flight at once when a fetch outlasts the
\* refresh interval.
MaxOverlap == 2
MaxScheduleCycles == 3

\* The upstream feed of the schedule specification: a metro train, a bus and
\* a tram, each reported at one position.
ScheduleClassOf(tripId) ==
    CASE tripId = 1 -> "metro"
      [] tripId = 2 -> "bus"
      [] OTHER -> "tram"

ScheduleFeed ==
    {[tripId |-> id, vehicleType |-> ScheduleClassOf(id), routeId |-> "R1",
      lon |-> 2, lat |-> 2, bearing |-> 90] : id \in 1..3}

\* The refresh timer fires while earlier fetches may still be in flight:
\* setInterval does not wait for the promise of the previous updateTrains()
\* (map.js 860-862, 878-892).
TimerTickOverlapping ==
    /\ updateIntervalId
    /\ cyclesLeft > 0
    /\ pendingFetches < MaxOverlap
    /\ cyclesLeft' = cyclesLeft - 1
    /\ updateCounters' = [metro |-> updateCounters.metro + 1,
                          vline |-> updateCounters.vline + 1,
                          tram |-> updateCounters.tram + 1,
                          bus |-> updateCounters.bus + 1]
    /\ pendingFetches' = pendingFetches + 1
    /\ UNCHANGED <<envVars, dataVars, ghostVars, initPhase, mapRemoved, destroyed,
                   trains, trainAnimations, anims, updateIntervalId, renderLoopId,
                   camera, payload, frame>>

InitSchedule ==
    /\ Constructed
    /\ call = NoCall
    /\ server = ServerStarted
    /\ loop = LoopStarted
    /\ feed = ScheduleFeed
    /\ staticData = NoStaticData
    /\ camera = DefaultCamera
    /\ cyclesLeft = MaxScheduleCycles - 1

NextSchedule ==
    \/ MapLoaded
    \/ InitFinish
    \/ TimerTickOverlapping
    \/ UpdateTrainsResume
    \/ AnimTick

SpecSchedule == InitSchedule /\ [][NextSchedule]_vars

\* The class of a vehicle of the feed.
ClassOfTrip(id) == (CHOOSE o \in feed : o.tripId = id).vehicleType

\* Whether a class is due on the n-th refresh cycle.
DueOnCycle(type, n) ==
    CASE type = "tram" -> n % 2 = 0
      [] type = "bus" -> n % 3 = 0
      [] OTHER -> TRUE

\* C20: the n-th refresh cycle reconciles the vehicles of its snapshot
\* whose class is due on cycle n (metro and V/Line always, trams when n is
\* even, buses when n is a multiple of 3) and no others, also when cycles
\* overlap; a vehicle of a
\* skipped class is not added, and if tracked it keeps its record and its
\* animation tasks.
C20_DifferentialSchedule ==
    [][reconciled' = reconciled + 1 =>
         \A id \in lastReconcile'.updatedIds :
            IF DueOnCycle(ClassOfTrip(id), lastReconcile'.cycle)
            THEN id \in SnapshotIds(lastReconcile'.due)
            ELSE /\ id \notin SnapshotIds(lastReconcile'.due)
                 /\ id \notin TrackedIds(trains) => id \notin TrackedIds(trains')
                 /\ id \in TrackedIds(trains) =>
                        /\ FindTrain(trains', id) > 0
                        /\ trains'[FindTrain(trains', id)] = trains[FindTrain(trains, id)]
                        /\ AnimationsOf(anims', id) = AnimationsOf(anims, id)]_vars

\* ---------------------------------------------------------- shared segments
\* The arguments of findSharedTrackSegments: one or two railways with
\* distinct ids on the edge P-Q, on Q-P, on Q-P with Q within rounding, on
\* P-Q-R or on P-Q-P-Q, which runs over the edge P-Q twice.
SharedTracks ==
    {<<PointP, PointQ>>,
     <<PointQ, PointP>>,
     << <<PointQ[1] + 4, PointQ[2]>>, PointP>>,
     <<PointP, PointQ, PointR>>,
     <<PointP, PointQ, PointP, PointQ>>}

SharedRailways ==
    {[id |-> id, transportType |-> "metro",
      geometry |-> [coordinates |-> track, offsetBy |-> Undefined],
      offset |-> Undefined] :
        id \in RailwayIds, track \in SharedTracks}

SharedArguments ==
    {rws \in UNION {[1..n -> SharedRailways] : n \in 1..2} :
        \A i, j \in 1..Len(rws) : i # j => rws[i].id # rws[j].id}

InitShared == HelperInit("findSharedTrackSegments", SharedArguments)

SharedReturn == HelperReturn("findSharedTrackSegments", findSharedTrackSegments(call.input))

NextShared == SharedReturn

SpecShared == InitShared /\ [][NextShared]_vars

\* The edges of a railway, each as the rounded coordinates of its two ends.
EdgesOf(r) ==
    {<<ToFixed5(r.geometry.coordinates[i][1]), ToFixed5(r.geometry.coordinates[i][2]),
       ToFixed5(r.geometry.coordinates[i + 1][1]), ToFixed5(r.geometry.coordinates[i + 1][2])>> :
        i \in 1..(Len(r.geometry.coordinates) - 1)}

Reversed(edge) == <<edge[3], edge[4], edge[1], edge[2]>>

\* The ids of the railways listed for a shared segment.
RoutesOn(g) == {g.railways[k].railwayId : k \in 1..Len(g.railways)}

SharedDone == call.op = "findSharedTrackSegments" /\ call.done

\* C21: two railways that run over the same edge in opposite directions
\* (ends equal after rounding to 5 decimals) are listed together for a
\* shared segment.
C21_SharedWhateverDirection ==
    SharedDone =>
        \A i, j \in 1..Len(call.input) :
            (i # j /\ \E e \in EdgesOf(call.input[i]) : Reversed(e) \in EdgesOf(call.input[j]))
            => \E k \in 1..Len(call.output) :
                  {call.input[i].id, call.input[j].id} \subseteq RoutesOn(call.output[k])

\* C22: every segment kept as shared lists at least 2 distinct railways,
\* and the number of lines its offsets are computed for is the number of
\* distinct railways on it.
C22_SharedNeedsTwoRoutes ==
    SharedDone =>
        \A k \in 1..Len(call.output) :
            /\ Cardinality(RoutesOn(call.output[k])) >= 2
            /\ Len(RankOffsets(call.output[k])) = Cardinality(RoutesOn(call.output[k]))

\* ------------------------------------------------------- shape variants
\* loadStaticData keeps, for a line name, one of the geometries of its
\* shapes.  Coordinates are integers; a coverage score is the fraction
\* CoverageNum / CoverageDen of the full extent.
SetMin(S) == CHOOSE x \in S : \A y \in S : x <= y
SetMax(S) == CHOOSE x \in S : \A y \in S : x >= y

Lons(coords) == {coords[i][1] : i \in 1..Len(coords)}
Lats(coords) == {coords[i][2] : i \in 1..Len(coords)}

\* fullExtent of all the variants, as the spans maxLon - minLon and
\* maxLat - minLat.
FullExtent(geometries) ==
    LET allLons == UNION {Lons(geometries[k].coordinates) : k \in 1..Len(geometries)}
        allLats == UNION {Lats(geometries[k].coordinates) : k \in 1..Len(geometries)}
    IN [lon |-> SetMax(allLons) - SetMin(allLons), lat |-> SetMax(allLats) - SetMin(allLats)]

\* coverageScore = lonCoverage + latCoverage over the common denominator.
CoverageDen(full) == full.lon * full.lat
CoverageNum(g, full) ==
    (SetMax(Lons(g.coordinates)) - SetMin(Lons(g.coordinates))) * full.lat
    + (SetMax(Lats(g.coordinates)) - SetMin(Lats(g.coordinates))) * full.lon

\* One step of the reduce: scores closer than 0.1 count as similar and the
\* point count decides.  A full extent without width or height makes every
\* score NaN, every comparison false, and best is kept.
BetterShape(best, current, full) ==
    IF CoverageDen(full) = 0 THEN best
    ELSE IF 10 * Abs(CoverageNum(current, full) - CoverageNum(best, full)) < CoverageDen(full)
         THEN IF Len(current.coordinates) > Len(best.coordinates) THEN current ELSE best
    ELSE IF CoverageNum(current, full) > CoverageNum(best, full) THEN current ELSE best

\* data.geometries.reduce(..., data.geometries[0]).
RECURSIVE ReduceShapes(_, _, _, _)
ReduceShapes(geometries, k, best, full) ==
    IF k > Len(geometries) THEN best
    ELSE ReduceShapes(geometries, k + 1, BetterShape(best, geometries[k], full), full)

bestGeometry(geometries) == ReduceShapes(geometries, 1, geometries[1], FullExtent(geometries))

\* The shape variants of a line: the full route in 2 points, a route that
\* stops 2 units short of its width in 3 points, one that stops 4 units
\* short of its width and 1 of its height in 4 points, half the route in 2
\* and in 4 points, and a route due north.
MaxVariants == 3

ShapeVariants ==
    {[coordinates |-> c] : c \in
        {<< <<0, 0>>, <<40, 40>> >>,
         << <<0, 0>>, <<20, 20>>, <<38, 40>> >>,
         << <<0, 0>>, <<10, 10>>, <<20, 20>>, <<36, 39>> >>,
         << <<0, 0>>, <<20, 20>> >>,
         << <<0, 0>>, <<10, 10>>, <<16, 16>>, <<20, 20>> >>,
         << <<0, 0>>, <<0, 40>> >>}}

ShapeArguments == UNION {[1..n -> ShapeVariants] : n \in 1..MaxVariants}

InitShapes == HelperInit("bestGeometry", ShapeArguments)

ShapesReturn == HelperReturn("bestGeometry", bestGeometry(call.input))

NextShapes == ShapesReturn

SpecShapes == InitShapes /\ [][NextShapes]_vars

ShapesDone == call.op = "bestGeometry" /\ call.done

\* C23: the geometry chosen for a line is one of its variants, no variant
\* has a greater coverage score, no variant of the same score has more
\* points, and every listing of the same variants gives that choice.
C23_BestCoverageChosen ==
    ShapesDone =>
        LET full == FullExtent(call.input)
            variants == {call.input[k] : k \in 1..Len(call.input)}
        IN /\ call.output \in variants
           /\ CoverageDen(full) > 0 =>
                \A g \in variants :
                    /\ CoverageNum(g, full) <= CoverageNum(call.output, full)
                    /\ CoverageNum(g, full) = CoverageNum(call.output, full)
                        => Len(g.coordinates) <= Len(call.output.coordinates)
           /\ \A other \in ShapeArguments :
                {other[k] : k \in 1..Len(other)} = variants
                    => bestGeometry(other) = call.output

\* ------------------------------------------------------------- render loop
\* The frame budget of renderFrame in ms, the gaps between two ticks of
\* the host's frame clock, and the time the loop is followed for.
FrameBudget == 16
TickGaps == {1, 15, 16, 17, 40}
MaxLoopTime == 80

\* A reference time that is never moved.
FrameReferenceStale(currentTime, lastFrameTime) == lastFrameTime

\* "lastFrameTime = currentTime - (deltaTime % 16)"
FrameReference(currentTime, lastFrameTime) ==
    currentTime - ((currentTime - lastFrameTime) % FrameBudget)

\* renderFrame(currentTime) with the frame clock (map.js 818-837): the
\* callback requests the next frame, and when deltaTime >= 16 it moves
\* lastFrameTime and, if there are trains, runs render3DTrains.
RenderFrameAt ==
    /\ renderLoopId
    /\ renderLoopId' = TRUE
    /\ \E gap \in TickGaps :
        LET currentTime == loop.now + gap
            deltaTime == currentTime - loop.lastFrameTime
        IN /\ currentTime <= MaxLoopTime
           /\ IF deltaTime >= FrameBudget
              THEN /\ loop' = [now |-> currentTime,
                               lastFrameTime |-> FrameReference(currentTime, loop.lastFrameTime),
                               frames |-> loop.frames + 1]
                   /\ IF Len(trains) > 0
                      THEN /\ payload' = Features(trains, camera, railways)
                           /\ trains' = RenderedTrains(trains, camera, railways)
                           /\ frame' = [rendered |-> TRUE, input |-> FrameView(trains),
                                        camera |-> camera, reconcile |-> lastReconcile]
                      ELSE UNCHANGED <<payload, trains, frame>>
              ELSE /\ loop' = [loop EXCEPT !.now = currentTime]
                   /\ UNCHANGED <<payload, trains, frame>>
    /\ UNCHANGED <<feed, staticData, call, server, dataVars, ghostVars, initPhase,
                   mapRemoved, destroyed, trainAnimations, anims, updateIntervalId,
                   updateCounters, pendingFetches, cyclesLeft, camera>>

\* The feed of the render-loop specification: one metro train at <<2, 2>>.
LoopFeed ==
    {[tripId |-> 1, vehicleType |-> "metro", routeId |-> "R1",
      lon |-> 2, lat |-> 2, bearing |-> 90]}

InitLoop ==
    /\ Constructed
    /\ call = NoCall
    /\ server = ServerStarted
    /\ loop = LoopStarted
    /\ feed = LoopFeed
    /\ staticData = NoStaticData
    /\ camera = DefaultCamera
    /\ cyclesLeft = 1

NextLoop ==
    \/ MapLoaded
    \/ InitFinish
    \/ TimerTick
    \/ UpdateTrainsResume
    \/ RenderFrameAt

SpecLoop == InitLoop /\ [][NextLoop]_vars

\* C24: a frame tick passes the rate limit only when at least 16 ms have
\* passed since lastFrameTime; lastFrameTime never exceeds the time of the
\* current tick; the ticks that passed in the first T ms after the loop
\* started number at most T / 16; and a step of the refresh timer leaves
\* the loop's state alone.
C24_FrameRateLimited ==
    /\ [](loop.lastFrameTime <= loop.now /\ loop.frames * FrameBudget <= loop.now)
    /\ [][/\ loop'.frames > loop.frames => loop'.now - loop.lastFrameTime >= FrameBudget
          /\ loop'.now - loop.lastFrameTime >= FrameBudget => loop'.frames = loop.frames + 1
          /\ (updateCounters' # updateCounters \/ reconciled' # reconciled) => loop' = loop]_vars

\* Two frames have passed the rate limit less than 16 ms apart, after a
\* late tick, while a refresh was reconciled and its train drawn.
C24_Witness ==
    /\ loop.frames = 2
    /\ loop.now < 3 * FrameBudget
    /\ loop.now > loop.lastFrameTime
    /\ reconciled > 0
    /\ Len(payload) > 0

\* The positions in this.trains of the vehicles that pass viewport culling
\* and zoom LOD under the engine's camera.
VisibleTracked ==
    {i \in 1..Len(trains) : InViewport(trains[i], camera) /\ PassesLOD(trains[i], camera)}

\* C25: after a frame tick that passes the rate limit the payload holds one
\* polygon for each tracked vehicle that passes viewport culling and zoom
\* LOD and none for any other vehicle; with no vehicle tracked it is empty.
C25_PayloadIsVisibleTracked ==
    [][loop'.frames = loop.frames + 1 =>
         /\ PayloadIds' = {trains'[i].tripId : i \in VisibleTracked'}
         /\ Len(payload') = Cardinality(VisibleTracked')]_vars

\* ---------------------------------------------------- bearing on reconcile
\* The arguments of Train.updatePosition: a train standing at <<4, 4>> with
\* no bearing, heading north-east or heading 200, and an observation on the
\* grid around it that reports no bearing (0), east or 359.
ReconcileTrains ==
    {Train([tripId |-> 1, vehicleType |-> "metro", routeId |-> "R1",
            lon |-> 4, lat |-> 4, bearing |-> b]) : b \in {0, 45, 200}}

ReconcileData ==
    {[tripId |-> 1, vehicleType |-> "metro", routeId |-> "R1",
      lon |-> x, lat |-> y, bearing |-> b] :
        x \in {0, 4, 8}, y \in {0, 4, 8}, b \in {0, 90, 359}}

ReconcileArguments == {[train |-> t, data |-> d] : t \in ReconcileTrains, d \in ReconcileData}

InitReconcile == HelperInit("updatePosition", ReconcileArguments)

ReconcileReturn ==
    HelperReturn("updatePosition", updatePosition(call.input.train, call.input.data))

NextReconcile == ReconcileReturn

SpecReconcile == InitReconcile /\ [][NextReconcile]_vars

\* The compass bearing of a move by dx east and dy north along a principal
\* direction: 0 north, 90 east, 180 south, 270 west.
CompassOfMove(dx, dy) ==
    CASE dx = 0 /\ dy > 0 -> 0
      [] dx > 0 /\ dy > 0 -> 45
      [] dx > 0 /\ dy = 0 -> 90
      [] dx > 0 /\ dy < 0 -> 135
      [] dx = 0 /\ dy < 0 -> 180
      [] dx < 0 /\ dy < 0 -> 225
      [] dx < 0 /\ dy = 0 -> 270
      [] OTHER -> 315

ReconcileDone == call.op = "updatePosition" /\ call.done

\* C26: a reconciled vehicle takes the bearing of the observation when that
\* is not 0; otherwise the compass bearing, within [0, 360), of the move
\* from its animation start to its new target; and if it has not moved, it
\* keeps its bearing.
C26_BearingOnReconcile ==
    ReconcileDone =>
        LET t == call.input.train
            d == call.input.data
            out == call.output
            dx == out.targetLon - ValueOf(out.startLon)
            dy == out.targetLat - ValueOf(out.startLat)
        IN /\ d.bearing # 0 => out.bearing = d.bearing
           /\ (d.bearing = 0 /\ (dx # 0 \/ dy # 0)) =>
                /\ out.bearing = CompassOfMove(dx, dy)
                /\ 0 <= out.bearing /\ out.bearing < 360
           /\ (d.bearing = 0 /\ dx = 0 /\ dy = 0) => out.bearing = t.bearing

\* A train that headed 200 was observed due west of its position without a
\* bearing, and now heads 270.
C26_Witness ==
    /\ ReconcileDone
    /\ call.input.train.bearing = 200
    /\ call.input.data.bearing = 0
    /\ call.input.data.lon = 0
    /\ call.input.data.lat = 4
    /\ call.output.bearing = 270

\* The scale on the straight lines through the control points the code
\* states (6x at zoom 9, 2x at zoom 13, 1x at zoom 18), in units of 1/900,
\* the zoom in hundredths.
ControlPointScale(zoom) ==
    IF zoom <= 900 THEN 5400
    ELSE IF zoom <= 1300 THEN 5400 - 9 * (zoom - 900)
    ELSE IF zoom <= 1800 THEN 1800 - (9 * (zoom - 1300)) \div 5
    ELSE 900

\* C27: the footprint scale of every polygon of a frame lies on the lines
\* through 6x at zoom 9, 2x at zoom 13 and 1x at zoom 18, is within [1, 6],
\* and does not grow with the zoom.
C27_ScaleThroughControlPoints ==
    /\ frame.rendered =>
        \A i \in 1..Len(payload) :
            /\ payload[i].zoomScale = ControlPointScale(frame.camera.zoom)
            /\ 900 <= payload[i].zoomScale /\ payload[i].zoomScale <= 5400
    /\ \A z1, z2 \in ZoomLevels : z1 <= z2 => ZoomScale(z1) >= ZoomScale(z2)

\* C28: snapshots are reconciled in the order their refresh cycles were
\* started: no snapshot is applied after the snapshot of a later cycle.
C28_AppliedInRequestOrder ==
    [][reconciled' = reconciled + 1 =>
         \A k \in lastReconcile.appliedCycles : k < lastReconcile'.cycle]_vars

\* ------------------------------------------------------- repeated tripIds
\* A feed in which the tripId 1 is reported by the metro endpoint at two
\* positions and by the tram endpoint as well, next to the tram 2.
MaxDuplicateCycles == 3

DuplicateFeed ==
    {[tripId |-> 1, vehicleType |-> "metro", routeId |-> "R1", lon |-> 0, lat |-> 0, bearing |-> 90],
     [tripId |-> 1, vehicleType |-> "metro", routeId |-> "R1", lon |-> 2, lat |-> 2, bearing |-> 90],
     [tripId |-> 1, vehicleType |-> "tram", routeId |-> "R1", lon |-> 2, lat |-> 0, bearing |-> 90],
     [tripId |-> 2, vehicleType |-> "tram", routeId |-> "R1", lon |-> 0, lat |-> 2, bearing |-> 90]}

InitDuplicates ==
    /\ Constructed
    /\ call = NoCall
    /\ server = ServerStarted
    /\ loop = LoopStarted
    /\ feed = DuplicateFeed
    /\ staticData = NoStaticData
    /\ camera = DefaultCamera
    /\ cyclesLeft = MaxDuplicateCycles - 1

NextDuplicates ==
    \/ MapLoaded
    \/ InitFinish
    \/ TimerTick
    \/ UpdateTrainsResume
    \/ AnimTick

SpecDuplicates == InitDuplicates /\ [][NextDuplicates]_vars

\* C29: the tracked set holds at most one vehicle per tripId, whatever the
\* snapshots list, and once a snapshot has been reconciled every tracked
\* tripId occurs in the last reconciled snapshot.
C29_OneVehiclePerTrip ==
    /\ \A i, j \in 1..Len(trains) : trains[i].tripId = trains[j].tripId => i = j
    /\ reconciled > 0 => TrackedIds(trains) \subseteq lastReconcile.updatedIds

\* The last snapshot listed the tripId 1 twice, as a metro train and as a
\* tram, both due and the vehicle new, and one vehicle 1 is tracked.
C29_Witness ==
    /\ reconciled > 0
    /\ 1 \in lastReconcile.added
    /\ \E i, j \in 1..Len(lastReconcile.due) :
        /\ i < j
        /\ lastReconcile.due[i].tripId = 1 /\ lastReconcile.due[i].vehicleType = "metro"
        /\ lastReconcile.due[j].tripId = 1 /\ lastReconcile.due[j].vehicleType = "tram"
    /\ Cardinality({i \in 1..Len(trains) : trains[i].tripId = 1}) = 1

\* C30: for each endpoint at most one upstream fetch is in flight: of the
\* requests that meet a stale entry at the same time, one fetches and the
\* others wait for the refreshed entry; and only a failed fetch is answered
\* with status 500.
C30_OneFetchPerWindow ==
    /\ \A e \in Endpoints : server.pending[e] <= 1
    /\ server.last.status = 500 => server.last.source = "fetched"

====
